---- MODULE Spec2Model ----
(***************************************************************************)
(* A model of lazytiff: the TIFF header/IFD-chain reader (src/src/lib.rs), *)
(* the lazy per-field state machine and IFD parser (src/src/subfile.rs)    *)
(* and the type catalog / value decoder (src/src/types.rs).                *)
(*                                                                         *)
(* The byte source is a finite sequence of bytes with one shared cursor    *)
(* (`pos`) behind one mutex (`lock`).  Callers are threads that hold       *)
(* handles (the reader, subfiles, fields) and run the library's            *)
(* operations; an operation that touches the byte source is split into the *)
(* steps at which another thread can be scheduled (lock, seek, read, ...). *)
(*                                                                         *)
(* Numbers.  u16/u32 values are naturals.  The model's files keep every    *)
(* decoded u32 below 2^31.  i8/i16/i32 are integers.  f32/f64 values are   *)
(* their bit patterns, written as the bytes most-significant first.        *)
(***************************************************************************)
EXTENDS Integers, Sequences, FiniteSets, TLC

\* ------------------------------------------------------------------ bounds

\* Width in bits of the host's usize (compute_value_buffer_size).
UsizeBits == 16

\* The reader's subfile list is not grown beyond this many entries.
MaxSubfiles == 3

\* Callers (threads) in the concurrent specification.
NumCallers == 2

\* The subfile list of a file of LoadAllFiles or FailingFiles is not grown
\* beyond this many entries.
MaxRichSubfiles == 1

\* ----------------------------------------------------------------- helpers

Pow2(n) == 2 ^ n

UsizeMax == Pow2(UsizeBits) - 1

Byte == 0 .. 255

\* buffer[at .. at+n) with `at` counted from 0, as Rust slices are.
Slice(s, at, n) == SubSeq(s, at + 1, at + n)

Reverse(s) == [i \in 1 .. Len(s) |-> s[Len(s) + 1 - i]]

\* Option<T>: None is <<>>, Some(x) is <<x>>.
None == <<>>

Some(x) == <<x>>

IsSome(o) == Len(o) = 1

\* ------------------------------------------------- integers from bytes

u16_from_le_bytes(b) == b[1] + 256 * b[2]

\* A faulty u16::from_be_bytes that takes the first byte as the low one.
u16_from_be_bytes_LowFirst(b) == b[1] + 256 * b[2]

u16_from_be_bytes(b) == 256 * b[1] + b[2]

u32_from_le_bytes(b) == b[1] + 256 * b[2] + 65536 * b[3] + 16777216 * b[4]

u32_from_be_bytes(b) == 16777216 * b[1] + 65536 * b[2] + 256 * b[3] + b[4]

i8_from_u8(x) == IF x >= 128 THEN x - 256 ELSE x

i16_from_u16(x) == IF x >= 32768 THEN x - 65536 ELSE x

\* Two's complement of the 32 bits, most-significant byte first.
i32_from_msb_bytes(b) ==
    IF b[1] >= 128
    THEN (16777216 * (b[1] - 128) + 65536 * b[2] + 256 * b[3] + b[4])
         + (-2147483647 - 1)
    ELSE 16777216 * b[1] + 65536 * b[2] + 256 * b[3] + b[4]

i32_from_le_bytes(b) == i32_from_msb_bytes(Reverse(b))

i32_from_be_bytes(b) == i32_from_msb_bytes(b)

\* f32::from_bits / f64::from_bits of the integer read in the given order:
\* the bit pattern, most-significant byte first.
bits_from_le_bytes(b) == Reverse(b)

bits_from_be_bytes(b) == b

\* The model's u16 and u32 readers, by endianness (the `match endianness`
\* around every from_le_bytes / from_be_bytes pair).
ReadU16(endianness, b) ==
    IF endianness = "Little" THEN u16_from_le_bytes(b) ELSE u16_from_be_bytes(b)

ReadU32(endianness, b) ==
    IF endianness = "Little" THEN u32_from_le_bytes(b) ELSE u32_from_be_bytes(b)

\* --------------------------------------------------------- type catalog

FieldTypes ==
    {"Byte", "Ascii", "Short", "Long", "Rational", "SByte", "Undefined",
     "SShort", "SLong", "SRational", "Float", "Double"}

\* A faulty catalog that takes the type code 0 for Byte.
FieldType_from_u16_ZeroIsByte(field_type_raw) ==
    CASE field_type_raw \in {0, 1} -> Some("Byte")
      [] field_type_raw = 2 -> Some("Ascii")
      [] field_type_raw = 3 -> Some("Short")
      [] field_type_raw = 4 -> Some("Long")
      [] field_type_raw = 5 -> Some("Rational")
      [] field_type_raw = 6 -> Some("SByte")
      [] field_type_raw = 7 -> Some("Undefined")
      [] field_type_raw = 8 -> Some("SShort")
      [] field_type_raw = 9 -> Some("SLong")
      [] field_type_raw = 10 -> Some("SRational")
      [] field_type_raw = 11 -> Some("Float")
      [] field_type_raw = 12 -> Some("Double")
      [] OTHER -> None

FieldType_from_u16(field_type_raw) ==
    CASE field_type_raw = 1 -> Some("Byte")
      [] field_type_raw = 2 -> Some("Ascii")
      [] field_type_raw = 3 -> Some("Short")
      [] field_type_raw = 4 -> Some("Long")
      [] field_type_raw = 5 -> Some("Rational")
      [] field_type_raw = 6 -> Some("SByte")
      [] field_type_raw = 7 -> Some("Undefined")
      [] field_type_raw = 8 -> Some("SShort")
      [] field_type_raw = 9 -> Some("SLong")
      [] field_type_raw = 10 -> Some("SRational")
      [] field_type_raw = 11 -> Some("Float")
      [] field_type_raw = 12 -> Some("Double")
      [] OTHER -> None

size_of(field_type) ==
    CASE field_type = "Byte" -> 1
      [] field_type = "Ascii" -> 1
      [] field_type = "Short" -> 2
      [] field_type = "Long" -> 4
      [] field_type = "Rational" -> 8
      [] field_type = "SByte" -> 1
      [] field_type = "Undefined" -> 1
      [] field_type = "SShort" -> 2
      [] field_type = "SLong" -> 4
      [] field_type = "SRational" -> 8
      [] field_type = "Float" -> 4
      [] field_type = "Double" -> 8

\* A faulty compute_value_buffer_size whose product wraps around.
compute_value_buffer_size_Wrapping(field_type, count) ==
    LET element_size == size_of(field_type)
    IN  IF count > UsizeMax
        THEN None
        ELSE Some((element_size * count) % Pow2(UsizeBits))

\* usize::try_from(count) fails when count does not fit the usize;
\* checked_mul is None when the product does not.
compute_value_buffer_size(field_type, count) ==
    LET element_size == size_of(field_type)
    IN  IF count > UsizeMax
        THEN None
        ELSE IF count > UsizeMax \div element_size
             THEN None
             ELSE Some(element_size * count)

\* -------------------------------------------------------- value decoder

\* A faulty chunks_exact that leaves the last chunk out.
chunks_exact_DropsLast(buffer, type_size) ==
    [i \in 1 .. ((Len(buffer) \div type_size) - 1) |->
        Slice(buffer, (i - 1) * type_size, type_size)]

\* buffer.chunks_exact(type_size): the consecutive type_size-byte chunks.
chunks_exact(buffer, type_size) ==
    [i \in 1 .. (Len(buffer) \div type_size) |->
        Slice(buffer, (i - 1) * type_size, type_size)]

rational_from_le_bytes(b) ==
    <<u32_from_le_bytes(Slice(b, 0, 4)), u32_from_le_bytes(Slice(b, 4, 4))>>

rational_from_be_bytes(b) ==
    <<u32_from_be_bytes(Slice(b, 0, 4)), u32_from_be_bytes(Slice(b, 4, 4))>>

srational_from_le_bytes(b) ==
    <<i32_from_le_bytes(Slice(b, 0, 4)), i32_from_le_bytes(Slice(b, 4, 4))>>

srational_from_be_bytes(b) ==
    <<i32_from_be_bytes(Slice(b, 0, 4)), i32_from_be_bytes(Slice(b, 4, 4))>>

\* One element from one chunk.
element_from_chunk(field_type, chunk, endianness) ==
    LET le == endianness = "Little"
    IN  CASE field_type \in {"Byte", "Ascii", "Undefined"} -> chunk[1]
          [] field_type = "SByte" -> i8_from_u8(chunk[1])
          [] field_type = "Short" ->
                IF le THEN u16_from_le_bytes(chunk) ELSE u16_from_be_bytes(chunk)
          [] field_type = "SShort" ->
                IF le THEN i16_from_u16(u16_from_le_bytes(chunk))
                      ELSE i16_from_u16(u16_from_be_bytes(chunk))
          [] field_type = "Long" ->
                IF le THEN u32_from_le_bytes(chunk) ELSE u32_from_be_bytes(chunk)
          [] field_type = "SLong" ->
                IF le THEN i32_from_le_bytes(chunk) ELSE i32_from_be_bytes(chunk)
          [] field_type = "Rational" ->
                IF le THEN rational_from_le_bytes(chunk)
                      ELSE rational_from_be_bytes(chunk)
          [] field_type = "SRational" ->
                IF le THEN srational_from_le_bytes(chunk)
                      ELSE srational_from_be_bytes(chunk)
          [] field_type \in {"Float", "Double"} ->
                IF le THEN bits_from_le_bytes(chunk) ELSE bits_from_be_bytes(chunk)

\* FieldValue: the variant (field_type) and its Vec (v).
value_from_chunks(field_type, chunks, endianness) ==
    [field_type |-> field_type,
     v |-> [i \in 1 .. Len(chunks) |->
                element_from_chunk(field_type, chunks[i], endianness)]]

FieldValue_field_type(value) == value.field_type

FieldValue_count(value) == Len(value.v)

\* Result: [ok |-> TRUE, val |-> x] or [ok |-> FALSE, err |-> kind]; a
\* failed assert_eq! is [ok |-> FALSE, err |-> "panic"].
Ok(x) == [ok |-> TRUE, val |-> x, err |-> "none"]

Err(kind) == [ok |-> FALSE, val |-> None, err |-> kind]

value_from_buffer(field_type, count, buffer, endianness) ==
    LET type_size == size_of(field_type)
        correct_buffer_size == compute_value_buffer_size(field_type, count)
    IN  IF ~IsSome(correct_buffer_size)
        THEN Err("ParseError")
        ELSE IF Len(buffer) # correct_buffer_size[1]
             THEN Err("panic")
             ELSE Ok(value_from_chunks(field_type,
                                       chunks_exact(buffer, type_size),
                                       endianness))

\* ---------------------------------------------------- field state machine

\* FieldState, the four variants.
Local(value) == [kind |-> "Local", value |-> value]

NotLoaded(field_type, count, offset) ==
    [kind |-> "NotLoaded", field_type |-> field_type, count |-> count,
     offset |-> offset]

Loaded(value, offset) == [kind |-> "Loaded", value |-> value, offset |-> offset]

Unknown(field_type_raw, count, value_offset_bytes) ==
    [kind |-> "Unknown", field_type_raw |-> field_type_raw, count |-> count,
     value_offset_bytes |-> value_offset_bytes]

\* A faulty from_ifd_entry_data that takes a 4-byte value as out of line
\* (required_buffer_size < 4).
from_ifd_entry_data_Below4(field_type_raw, count, value_offset_bytes, endianness) ==
    LET ft == FieldType_from_u16(field_type_raw)
    IN  IF ~IsSome(ft)
        THEN Ok(Unknown(field_type_raw, count, value_offset_bytes))
        ELSE LET field_type == ft[1]
                 required_buffer_size ==
                     compute_value_buffer_size(field_type, count)
             IN  IF ~IsSome(required_buffer_size)
                 THEN Err("ParseError")
                 ELSE IF required_buffer_size[1] < 4
                      THEN LET value == value_from_buffer(
                                   field_type, count,
                                   Slice(value_offset_bytes, 0,
                                         required_buffer_size[1]),
                                   endianness)
                           IN  IF value.ok THEN Ok(Local(value.val))
                                           ELSE Err(value.err)
                      ELSE Ok(NotLoaded(field_type, count,
                                        ReadU32(endianness,
                                                value_offset_bytes)))

\* A faulty from_ifd_entry_data that reads the offset as little-endian
\* whatever the file's byte order.
from_ifd_entry_data_LeOffset(field_type_raw, count, value_offset_bytes, endianness) ==
    LET ft == FieldType_from_u16(field_type_raw)
    IN  IF ~IsSome(ft)
        THEN Ok(Unknown(field_type_raw, count, value_offset_bytes))
        ELSE LET field_type == ft[1]
                 required_buffer_size ==
                     compute_value_buffer_size(field_type, count)
             IN  IF ~IsSome(required_buffer_size)
                 THEN Err("ParseError")
                 ELSE IF required_buffer_size[1] <= 4
                      THEN LET value == value_from_buffer(
                                   field_type, count,
                                   Slice(value_offset_bytes, 0,
                                         required_buffer_size[1]),
                                   endianness)
                           IN  IF value.ok THEN Ok(Local(value.val))
                                           ELSE Err(value.err)
                      ELSE Ok(NotLoaded(field_type, count,
                                        u32_from_le_bytes(value_offset_bytes)))

\* A faulty from_ifd_entry_data that turns an entry whose buffer size is
\* not representable into an Unknown field.
from_ifd_entry_data_OverflowUnknown(field_type_raw, count, value_offset_bytes, endianness) ==
    LET ft == FieldType_from_u16(field_type_raw)
    IN  IF ~IsSome(ft)
        THEN Ok(Unknown(field_type_raw, count, value_offset_bytes))
        ELSE LET field_type == ft[1]
                 required_buffer_size ==
                     compute_value_buffer_size(field_type, count)
             IN  IF ~IsSome(required_buffer_size)
                 THEN Ok(Unknown(field_type_raw, count, value_offset_bytes))
                 ELSE IF required_buffer_size[1] <= 4
                      THEN LET value == value_from_buffer(
                                   field_type, count,
                                   Slice(value_offset_bytes, 0,
                                         required_buffer_size[1]),
                                   endianness)
                           IN  IF value.ok THEN Ok(Local(value.val))
                                           ELSE Err(value.err)
                      ELSE Ok(NotLoaded(field_type, count,
                                        ReadU32(endianness,
                                                value_offset_bytes)))

\* FieldState::from_ifd_entry_data: Result<FieldState>.
from_ifd_entry_data(field_type_raw, count, value_offset_bytes, endianness) ==
    LET ft == FieldType_from_u16(field_type_raw)
    IN  IF ~IsSome(ft)
        THEN Ok(Unknown(field_type_raw, count, value_offset_bytes))
        ELSE LET field_type == ft[1]
                 required_buffer_size ==
                     compute_value_buffer_size(field_type, count)
             IN  IF ~IsSome(required_buffer_size)
                 THEN Err("ParseError")
                 ELSE IF required_buffer_size[1] <= 4
                      THEN LET value_buffer ==
                                   Slice(value_offset_bytes, 0,
                                         required_buffer_size[1])
                               value == value_from_buffer(field_type, count,
                                                          value_buffer,
                                                          endianness)
                           IN  IF value.ok THEN Ok(Local(value.val))
                                           ELSE Err(value.err)
                      ELSE Ok(NotLoaded(field_type, count,
                                        ReadU32(endianness,
                                                value_offset_bytes)))

\* Field::field_type: Option<FieldType>.
Field_field_type(state) ==
    CASE state.kind = "Local" -> Some(FieldValue_field_type(state.value))
      [] state.kind = "NotLoaded" -> Some(state.field_type)
      [] state.kind = "Loaded" -> Some(FieldValue_field_type(state.value))
      [] state.kind = "Unknown" -> None

\* Field::count.
Field_count(state) ==
    CASE state.kind = "Local" -> FieldValue_count(state.value)
      [] state.kind = "NotLoaded" -> state.count
      [] state.kind = "Loaded" -> FieldValue_count(state.value)
      [] state.kind = "Unknown" -> state.count

\* A faulty get_value_if_local that also hands out a Loaded value.
get_value_if_local_OrLoaded(state) ==
    IF state.kind \in {"Local", "Loaded"} THEN Some(state.value) ELSE None

\* Field::get_value_if_local: Option<&FieldValue>.
get_value_if_local(state) ==
    IF state.kind = "Local" THEN Some(state.value) ELSE None

\* The match at the end of Field::get_value: Option<&FieldValue>.
get_value_match(state) ==
    CASE state.kind = "Local" -> Some(state.value)
      [] state.kind = "Loaded" -> Some(state.value)
      [] OTHER -> None

\* A faulty unload that keeps the value's size in bytes as the count.
unload_ByteCount(state) ==
    IF state.kind = "Loaded"
    THEN NotLoaded(FieldValue_field_type(state.value),
                   FieldValue_count(state.value)
                       * size_of(FieldValue_field_type(state.value)),
                   state.offset)
    ELSE state

\* A faulty unload that forgets where the value came from.
unload_ForgetsOffset(state) ==
    IF state.kind = "Loaded"
    THEN NotLoaded(FieldValue_field_type(state.value),
                   FieldValue_count(state.value),
                   0)
    ELSE state

\* Field::unload: the state it leaves.
unload(state) ==
    IF state.kind = "Loaded"
    THEN NotLoaded(FieldValue_field_type(state.value),
                   FieldValue_count(state.value),
                   state.offset)
    ELSE state

\* --------------------------------------------------------------- subfile

\* A Field: its endianness and state, as in the struct, and two history
\* fields that no operation reads: the directory entry it was built from
\* (decl) and the Loaded state its first successful load produced (first).
NewField(endianness, state, decl) ==
    [endianness |-> endianness, state |-> state, decl |-> decl, first |-> None]

EmptyMap == [t \in {} |-> None]

\* A faulty insert that keeps the value a key already has.
MapInsert_KeepsFirst(map, key, val) ==
    [k \in (DOMAIN map) \cup {key} |->
        IF k \in DOMAIN map THEN map[k] ELSE val]

\* BTreeMap::insert.
MapInsert(map, key, val) ==
    [k \in (DOMAIN map) \cup {key} |-> IF k = key THEN val ELSE map[k]]

\* The i-th (from 0) 12-byte directory entry of the buffer, decoded.
IfdEntry(ifd_remaining_buffer, i, endianness) ==
    LET ifd_entry_bytes == Slice(ifd_remaining_buffer, 12 * i, 12)
    IN  [tag |-> ReadU16(endianness, Slice(ifd_entry_bytes, 0, 2)),
         field_type_raw |-> ReadU16(endianness, Slice(ifd_entry_bytes, 2, 2)),
         count |-> ReadU32(endianness, Slice(ifd_entry_bytes, 4, 4)),
         value_offset_bytes |-> Slice(ifd_entry_bytes, 8, 4)]

\* The loop over the directory entries: Result<BTreeMap<u16, Field>>.
RECURSIVE fields_loop(_, _, _, _, _)
fields_loop(i, ifd_entry_count, ifd_remaining_buffer, endianness, fields_map) ==
    IF i >= ifd_entry_count
    THEN Ok(fields_map)
    ELSE LET e == IfdEntry(ifd_remaining_buffer, i, endianness)
             field_state == from_ifd_entry_data(e.field_type_raw, e.count,
                                                e.value_offset_bytes,
                                                endianness)
         IN  IF ~field_state.ok
             THEN Err(field_state.err)
             ELSE fields_loop(i + 1, ifd_entry_count, ifd_remaining_buffer,
                              endianness,
                              MapInsert(fields_map, e.tag,
                                        NewField(endianness, field_state.val,
                                                 e)))

\* A faulty conversion that reports the raw offset 0 as Some(0).
next_ifd_offset_opt_AlwaysSome(next_ifd_offset_raw) == Some(next_ifd_offset_raw)

\* Option<u32> from the raw next-IFD offset.
next_ifd_offset_opt(next_ifd_offset_raw) ==
    IF next_ifd_offset_raw # 0 THEN Some(next_ifd_offset_raw) ELSE None

\* The part of Subfile::new after the reads: Result<Subfile>.  `at` is a
\* history field: the offset the IFD was read at.
subfile_from_buffer(offset, ifd_entry_count, ifd_remaining_buffer, endianness) ==
    LET fields == fields_loop(0, ifd_entry_count, ifd_remaining_buffer,
                              endianness, EmptyMap)
        ifd_remaining_buffer_size == Len(ifd_remaining_buffer)
        ifd_offset_bytes ==
            Slice(ifd_remaining_buffer, ifd_remaining_buffer_size - 4, 4)
    IN  IF ~fields.ok
        THEN Err(fields.err)
        ELSE Ok([endianness |-> endianness,
                 fields |-> fields.val,
                 offset_to_next_ifd |->
                     next_ifd_offset_opt(ReadU32(endianness, ifd_offset_bytes)),
                 at |-> offset])

\* ---------------------------------------------------------------- header

MagicLittle == <<73, 73, 42, 0>>

MagicBig == <<77, 77, 0, 42>>

\* A faulty Header::from_bytes that names the byte order Little after
\* either magic.
Header_from_bytes_AlwaysLittle(bytes) ==
    LET magic == Slice(bytes, 0, 4)
        offset_bytes == Slice(bytes, 4, 4)
    IN  IF magic = MagicLittle
        THEN Ok([endianness |-> "Little",
                 offset_to_first_ifd |-> u32_from_le_bytes(offset_bytes)])
        ELSE IF magic = MagicBig
             THEN Ok([endianness |-> "Little",
                      offset_to_first_ifd |-> u32_from_be_bytes(offset_bytes)])
             ELSE Err("ParseError")

\* Header::from_bytes: Result<Header>.
Header_from_bytes(bytes) ==
    LET magic == Slice(bytes, 0, 4)
        offset_bytes == Slice(bytes, 4, 4)
    IN  IF magic = MagicLittle
        THEN Ok([endianness |-> "Little",
                 offset_to_first_ifd |-> u32_from_le_bytes(offset_bytes)])
        ELSE IF magic = MagicBig
             THEN Ok([endianness |-> "Big",
                      offset_to_first_ifd |-> u32_from_be_bytes(offset_bytes)])
             ELSE Err("ParseError")

\* ----------------------------------------------------------- input files

\* The encoders that lay the model's input files out (the way the tests of
\* lib.rs concatenate their byte strings).
U16ToBytes(endianness, x) ==
    IF endianness = "Little" THEN <<x % 256, x \div 256>>
                             ELSE <<x \div 256, x % 256>>

U32ToBytes(endianness, x) ==
    LET le == <<x % 256, (x \div 256) % 256, (x \div 65536) % 256,
                x \div 16777216>>
    IN  IF endianness = "Little" THEN le ELSE Reverse(le)

RECURSIVE Concat(_)
Concat(seqs) == IF seqs = <<>> THEN <<>> ELSE Head(seqs) \o Concat(Tail(seqs))

HeaderBytes(endianness, offset_to_first_ifd) ==
    (IF endianness = "Little" THEN MagicLittle ELSE MagicBig)
        \o U32ToBytes(endianness, offset_to_first_ifd)

\* A directory entry to lay out: its value is inline (the 4 bytes `inline`)
\* or out of line at `rel` bytes into the file's data region.
In(tag, type, count, inline) ==
    [tag |-> tag, type |-> type, count |-> count, inline |-> inline, rel |-> 0]

Out(tag, type, count, rel) ==
    [tag |-> tag, type |-> type, count |-> count, inline |-> <<>>, rel |-> rel]

EntryBytes(endianness, d, data_at) ==
    U16ToBytes(endianness, d.tag) \o U16ToBytes(endianness, d.type)
        \o U32ToBytes(endianness, d.count)
        \o (IF d.inline # <<>> THEN d.inline
            ELSE U32ToBytes(endianness, data_at + d.rel))

IfdBytes(endianness, entries, next, data_at) ==
    U16ToBytes(endianness, Len(entries))
        \o Concat([i \in 1 .. Len(entries) |->
                      EntryBytes(endianness, entries[i], data_at)])
        \o U32ToBytes(endianness, next)

IfdLen(entries) == 2 + 12 * Len(entries) + 4

\* The out-of-line values of every file of the model: a Rational 33554433/0
\* (little-endian), three Shorts, an SRational, a Double, five Bytes.
DataBytes == <<1, 0, 0, 2, 0, 0, 0, 0, 202, 254, 190, 239, 255, 255, 255, 254>>

\* The IFD chain of a file: where the first IFD's next-IFD offset points
\* ("end": 0; "second", "self"; "low": into the header; "eof": past the end)
\* and where the second IFD's does ("end", "first", "self").
ChainFile(endianness, entriesA, nextA, entriesB, nextB) ==
    LET atA == 8
        atB == atA + IfdLen(entriesA)
        hasB == nextA = "second"
        data_at == IF hasB THEN atB + IfdLen(entriesB) ELSE atB
        end == data_at + Len(DataBytes)
        rawA == CASE nextA = "end" -> 0
                  [] nextA = "second" -> atB
                  [] nextA = "self" -> atA
                  [] nextA = "low" -> 7
                  [] nextA = "eof" -> end + 1000
        rawB == CASE nextB = "end" -> 0
                  [] nextB = "first" -> atA
                  [] nextB = "self" -> atB
    IN  HeaderBytes(endianness, atA)
            \o IfdBytes(endianness, entriesA, rawA, data_at)
            \o (IF hasB THEN IfdBytes(endianness, entriesB, rawB, data_at)
                        ELSE <<>>)
            \o DataBytes

Endiannesses == {"Little", "Big"}

\* Directory-entry lists: every type code 1..12 inline or out of line,
\* codes outside 1..12, a count of 0, counts whose buffer size overflows,
\* an out-of-line value past the end of the file, a duplicated tag.
EntryLists ==
    { <<>>,
      <<In(1337, 1, 3, <<202, 254, 190, 239>>)>>,
      <<In(256, 3, 2, <<1, 0, 0, 2>>), Out(258, 3, 3, 0)>>,
      <<In(300, 9999, 7, <<9, 8, 7, 6>>), Out(282, 5, 1, 0),
        In(301, 13, 70000, <<1, 2, 3, 4>>)>>,
      <<In(257, 4, 1, <<18, 52, 86, 120>>), In(259, 2, 0, <<65, 66, 67, 68>>),
        In(302, 0, 0, <<0, 0, 0, 0>>)>>,
      <<Out(270, 7, 5, 1000), In(260, 6, 4, <<255, 128, 1, 0>>)>>,
      <<In(256, 3, 1, <<1, 0, 0, 0>>), In(261, 4, 70000, <<8, 0, 0, 8>>)>>,
      <<In(256, 3, 1, <<1, 0, 0, 0>>), In(256, 1, 3, <<202, 254, 190, 239>>)>>,
      <<In(262, 8, 2, <<255, 254, 0, 128>>),
        In(263, 9, 1, <<255, 255, 255, 254>>), Out(264, 10, 1, 8)>>,
      <<In(265, 11, 1, <<63, 128, 0, 0>>), Out(266, 12, 1, 8),
        In(267, 12, 0, <<0, 0, 0, 0>>)>> }

EntriesA == <<Out(258, 3, 3, 0)>>

EntriesB == <<Out(270, 1, 5, 8)>>

\* Files with one IFD.
SingleFiles ==
    {ChainFile(e, l, "end", <<>>, "end") : e \in Endiannesses, l \in EntryLists}

\* Files whose chain has two IFDs, a cycle, or a next-IFD offset that points
\* into the header or past the end of the file.
ChainFiles ==
    {ChainFile(e, EntriesA, "second", EntriesB, nb) :
        e \in Endiannesses, nb \in {"end", "first", "self"}}
    \cup {ChainFile(e, EntriesA, na, <<>>, "end") :
            e \in Endiannesses, na \in {"self", "eof"}}
    \cup {ChainFile(e, <<>>, "low", <<>>, "end") : e \in Endiannesses}

\* The file of tests::read_ifd.
ReadIfdTestFile ==
    <<73, 73, 42, 0, 13, 0, 0, 0>> \o <<0, 0, 0, 0, 0>> \o <<1, 0>>
        \o <<57, 5>> \o <<1, 0>> \o <<3, 0, 0, 0>> \o <<202, 254, 190, 239>>
        \o <<0, 0, 0, 0>>

\* Headers: those of the tests of lib.rs (offset 1234567890 in both byte
\* orders, first offset 0, "II*\0" alone, "Hello, World!"), and an empty
\* file, a 7-byte file, first offsets 7 and 8, a magic in the wrong order.
HeaderFiles ==
    {HeaderBytes(e, o) : e \in Endiannesses, o \in {0, 7, 8, 1234567890}}
    \cup { <<>>,
           <<73, 73, 42, 0>>,
           <<77, 77, 0, 42, 0, 0, 0>>,
           <<72, 101, 108, 108, 111, 44, 32, 87, 111, 114, 108, 100, 33>>,
           <<73, 73, 0, 42, 8, 0, 0, 0>>,
           <<77, 77, 42, 0, 0, 0, 0, 8>> }

Files == SingleFiles \cup ChainFiles \cup HeaderFiles \cup {ReadIfdTestFile}

\* The files of the concurrent specification: two IFDs, each with one
\* out-of-line field, at different offsets.
ConcFiles ==
    {ChainFile(e, EntriesA, "second", EntriesB, "end") : e \in Endiannesses}

\* A file whose IFD has three out-of-line fields, the one with the middle
\* tag past the end of the file; the entries are not in tag order.
LoadAllFiles ==
    {ChainFile(e, <<Out(282, 5, 1, 0), Out(258, 3, 3, 0), Out(270, 7, 5, 1000)>>,
               "end", <<>>, "end") : e \in Endiannesses}

\* A file whose IFD has a readable out-of-line field and one past the end
\* of the file, and whose next-IFD offset points past the end of the file:
\* loads and traversals that fail with the lock held.
FailingFiles ==
    {ChainFile(e, <<Out(258, 3, 3, 0), Out(270, 7, 5, 1000)>>,
               "eof", <<>>, "end") : e \in Endiannesses}

\* ----------------------------------------------------------------- state

VARIABLES
    file,     \* the bytes of the byte source (never written)
    pos,      \* the cursor of the shared BufReader
    lock,     \* the Mutex around it: 0 when free, else the caller holding it
    reader,   \* the TiffReader, or the outcome of a failed TiffReader::new
    cs        \* per caller: the operation it is in and that operation's locals

vars == <<file, pos, lock, reader, cs>>

Callers == DOMAIN cs

\* A caller that is in no operation.  pc is the caller's position; op the
\* public operation it called; sub/tag the field it operates on; ifd_offset,
\* n, buf and tags the operation's locals; res its result.  pre (the field
\* before the operation), io (the seeks and reads the operation issued so
\* far), base (the length of the subfile list when read_all_ifds was called)
\* and presub (the subfile before load_all_field_values or
\* unload_all_field_values) are history that no operation reads.
IdleCaller ==
    [pc |-> "idle", op |-> "none", sub |-> 0, tag |-> 0, ifd_offset |-> 0,
     n |-> 0, buf |-> <<>>, res |-> Ok(None), pre |-> None, io |-> <<>>,
     base |-> 0, tags |-> <<>>, presub |-> None]

NoReader ==
    [status |-> "uninit", err |-> "none", endianness |-> "Little",
     offset_to_first_ifd |-> 0, subfiles |-> <<>>]

IoSeek(offset) == [call |-> "seek", arg |-> offset]

IoRead(len) == [call |-> "read_exact", arg |-> len]

\* read_exact of n bytes with the cursor at p: the bytes and the new cursor,
\* or UnexpectedEof (an IoError) when fewer than n bytes are left.
read_exact(p, n) ==
    IF p + n <= Len(file)
    THEN [ok |-> TRUE, bytes |-> Slice(file, p, n), pos |-> p + n]
    ELSE [ok |-> FALSE, bytes |-> <<>>,
          pos |-> IF p > Len(file) THEN p ELSE Len(file)]

\* A faulty lock that is granted while another thread holds the guard.
MutexFree_NoExclusion == TRUE

\* Mutex::lock returns once no other thread holds the guard.
MutexFree == lock = 0

FieldOps == {"load", "get_value", "unload", "get_value_if_local"}

SubfileOps == {"load_all", "unload_all"}

\* &mut self: a field is borrowed by one caller at a time (a subfile
\* operation borrows all the fields of its subfile), and the reader (with
\* the subfiles it owns) is not borrowed while read_all_ifds runs.
FieldFree(c, i, tag) ==
    /\ \A d \in Callers \ {c} :
          /\ ~(cs[d].op \in FieldOps /\ cs[d].sub = i /\ cs[d].tag = tag)
          /\ ~(cs[d].op \in SubfileOps /\ cs[d].sub = i)
    /\ \A d \in Callers : cs[d].op # "read_all_ifds"

SubfileFree(c, i) ==
    /\ \A d \in Callers \ {c} :
          ~(cs[d].op \in FieldOps \cup SubfileOps /\ cs[d].sub = i)
    /\ \A d \in Callers : cs[d].op # "read_all_ifds"

ReaderFree(c) ==
    \A d \in Callers \ {c} :
        cs[d].op \notin FieldOps \cup SubfileOps \cup {"read_all_ifds"}

FieldAt(i, tag) == reader.subfiles[i].fields[tag]

\* A faulty assignment that reaches the field with this tag in every
\* subfile of the list.
SetFieldState_EverySubfile(i, tag, field) ==
    [reader EXCEPT !.subfiles =
        [j \in 1 .. Len(reader.subfiles) |->
            IF tag \in DOMAIN reader.subfiles[j].fields
            THEN [reader.subfiles[j] EXCEPT !.fields[tag] = field]
            ELSE reader.subfiles[j]]]

SetFieldState(i, tag, field) ==
    [reader EXCEPT !.subfiles[i].fields[tag] = field]

\* ------------------------------------------------------------------ reader

\* A faulty TiffReader::new that accepts every first-IFD offset but 0.
TiffReader_new_NonZero ==
    LET header_bytes == read_exact(0, 8)
        header == Header_from_bytes(header_bytes.bytes)
    IN  IF ~header_bytes.ok
        THEN [r |-> [NoReader EXCEPT !.status = "err", !.err = "IoError"],
              pos |-> header_bytes.pos]
        ELSE IF ~header.ok
             THEN [r |-> [NoReader EXCEPT !.status = "err", !.err = header.err],
                   pos |-> header_bytes.pos]
             ELSE IF header.val.offset_to_first_ifd # 0
                  THEN [r |-> [status |-> "ok", err |-> "none",
                               endianness |-> header.val.endianness,
                               offset_to_first_ifd |->
                                   header.val.offset_to_first_ifd,
                               subfiles |-> <<>>],
                        pos |-> header_bytes.pos]
                  ELSE [r |-> [NoReader EXCEPT !.status = "err",
                                               !.err = "ParseError"],
                        pos |-> header_bytes.pos]

\* TiffReader::new: Result<TiffReader>, and the cursor it leaves.
TiffReader_new ==
    LET header_bytes == read_exact(0, 8)
        header == Header_from_bytes(header_bytes.bytes)
    IN  IF ~header_bytes.ok
        THEN [r |-> [NoReader EXCEPT !.status = "err", !.err = "IoError"],
              pos |-> header_bytes.pos]
        ELSE IF ~header.ok
             THEN [r |-> [NoReader EXCEPT !.status = "err", !.err = header.err],
                   pos |-> header_bytes.pos]
             ELSE IF header.val.offset_to_first_ifd >= 8
                  THEN [r |-> [status |-> "ok", err |-> "none",
                               endianness |-> header.val.endianness,
                               offset_to_first_ifd |->
                                   header.val.offset_to_first_ifd,
                               subfiles |-> <<>>],
                        pos |-> header_bytes.pos]
                  ELSE [r |-> [NoReader EXCEPT !.status = "err",
                                               !.err = "ParseError"],
                        pos |-> header_bytes.pos]

TiffReaderNew ==
    /\ reader.status = "uninit"
    /\ reader' = TiffReader_new.r
    /\ pos' = TiffReader_new.pos
    /\ UNCHANGED <<file, lock, cs>>

\* read_all_ifds up to its first call of Subfile::new.
ReadAllIfdsBegin(c) ==
    /\ reader.status = "ok"
    /\ cs[c].pc = "idle"
    /\ ReaderFree(c)
    /\ LET ifd_offset == reader.offset_to_first_ifd
       IN  cs' = [cs EXCEPT ![c] =
                    IF ifd_offset # 0
                    THEN [IdleCaller EXCEPT !.op = "read_all_ifds",
                                            !.pc = "sf_lock",
                                            !.ifd_offset = ifd_offset,
                                            !.base = Len(reader.subfiles)]
                    ELSE [IdleCaller EXCEPT !.op = "read_all_ifds",
                                            !.pc = "ret",
                                            !.base = Len(reader.subfiles)]]
    /\ UNCHANGED <<file, pos, lock, reader>>

\* The IFD offsets a caller can know: the header's and those the subfiles
\* read so far report.
KnownOffsets ==
    {reader.offset_to_first_ifd}
        \cup {reader.subfiles[i].offset_to_next_ifd[1] :
                i \in {j \in 1 .. Len(reader.subfiles) :
                          IsSome(reader.subfiles[j].offset_to_next_ifd)}}

\* A caller's own call of Subfile::new on the shared byte source.
SubfileNewBegin(c, offset) ==
    /\ reader.status = "ok"
    /\ cs[c].pc = "idle"
    /\ offset \in KnownOffsets
    /\ cs' = [cs EXCEPT ![c] = [IdleCaller EXCEPT !.op = "Subfile_new",
                                                  !.pc = "sf_lock",
                                                  !.ifd_offset = offset]]
    /\ UNCHANGED <<file, pos, lock, reader>>

\* Subfile::new: buf_reader_ref.lock().
SfLock(c) ==
    /\ cs[c].pc = "sf_lock"
    /\ MutexFree
    /\ lock' = c
    /\ cs' = [cs EXCEPT ![c].pc = "sf_seek"]
    /\ UNCHANGED <<file, pos, reader>>

\* Subfile::new: buf_reader.seek(Start(offset)).
SfSeek(c) ==
    /\ cs[c].pc = "sf_seek"
    /\ pos' = cs[c].ifd_offset
    /\ cs' = [cs EXCEPT ![c].pc = "sf_count",
                        ![c].io = Append(@, IoSeek(cs[c].ifd_offset))]
    /\ UNCHANGED <<file, lock, reader>>

\* Subfile::new: read_exact of the 2-byte entry count; an error returns
\* through `?`, which drops the guard.
SfReadCount(c) ==
    /\ cs[c].pc = "sf_count"
    /\ LET r == read_exact(pos, 2)
       IN  /\ pos' = r.pos
           /\ IF r.ok
              THEN /\ cs' = [cs EXCEPT
                        ![c].pc = "sf_rest",
                        ![c].n = ReadU16(reader.endianness, r.bytes),
                        ![c].io = Append(@, IoRead(2))]
                   /\ UNCHANGED lock
              ELSE /\ cs' = [cs EXCEPT ![c].pc = "ret",
                                       ![c].res = Err("IoError"),
                                       ![c].io = Append(@, IoRead(2))]
                   /\ lock' = 0
    /\ UNCHANGED <<file, reader>>

\* Subfile::new: read_exact of the remaining 12*count + 4 bytes; the guard
\* is dropped at the end of the block, or by the `?` of a failed read.
SfReadRest(c) ==
    /\ cs[c].pc = "sf_rest"
    /\ LET ifd_remaining_buffer_size == 12 * cs[c].n + 4
           r == read_exact(pos, ifd_remaining_buffer_size)
       IN  /\ pos' = r.pos
           /\ cs' = [cs EXCEPT
                 ![c].pc = IF r.ok THEN "sf_parse" ELSE "ret",
                 ![c].buf = r.bytes,
                 ![c].res = IF r.ok THEN @ ELSE Err("IoError"),
                 ![c].io = Append(@, IoRead(ifd_remaining_buffer_size))]
    /\ lock' = 0
    /\ UNCHANGED <<file, reader>>

\* The bound on the length of the subfile list for the file at hand.
SubfileCap ==
    IF file \in LoadAllFiles \cup FailingFiles THEN MaxRichSubfiles
                                               ELSE MaxSubfiles

\* Subfile::new after the reads, and what its caller does with the result:
\* read_all_ifds pushes the subfile and tests the loop condition again.
SfParse(c) ==
    /\ cs[c].pc = "sf_parse"
    /\ LET subfile == subfile_from_buffer(cs[c].ifd_offset, cs[c].n,
                                          cs[c].buf, reader.endianness)
       IN  IF ~subfile.ok
           THEN /\ cs' = [cs EXCEPT ![c].pc = "ret", ![c].buf = <<>>,
                                    ![c].res = Err(subfile.err)]
                /\ UNCHANGED reader
           ELSE IF cs[c].op = "Subfile_new"
                THEN /\ cs' = [cs EXCEPT ![c].pc = "ret", ![c].buf = <<>>,
                                         ![c].res = Ok(subfile.val)]
                     /\ UNCHANGED reader
                ELSE /\ Len(reader.subfiles) < SubfileCap
                     /\ LET ifd_offset ==
                                IF IsSome(subfile.val.offset_to_next_ifd)
                                THEN subfile.val.offset_to_next_ifd[1]
                                ELSE 0
                        IN  /\ reader' = [reader EXCEPT !.subfiles =
                                             Append(@, subfile.val)]
                            /\ cs' = [cs EXCEPT
                                  ![c].pc = IF ifd_offset # 0 THEN "sf_lock"
                                                              ELSE "ret",
                                  ![c].ifd_offset = ifd_offset,
                                  ![c].n = 0,
                                  ![c].buf = <<>>,
                                  ![c].res = Ok(None)]
    /\ UNCHANGED <<file, pos, lock>>

\* ------------------------------------------------------------ field calls

\* Field::load (op "load") or Field::get_value (op "get_value", which calls
\* load first) up to the lock: the match on the state and the buffer size.
LoadBegin(c, i, tag, op) ==
    /\ reader.status = "ok"
    /\ cs[c].pc = "idle"
    /\ i \in 1 .. Len(reader.subfiles)
    /\ tag \in DOMAIN reader.subfiles[i].fields
    /\ FieldFree(c, i, tag)
    /\ LET field == FieldAt(i, tag)
           state == field.state
           call == [IdleCaller EXCEPT !.op = op, !.sub = i, !.tag = tag,
                                      !.pre = Some(field)]
       IN  cs' = [cs EXCEPT ![c] =
              IF state.kind = "NotLoaded"
              THEN LET required_buffer_size ==
                           compute_value_buffer_size(state.field_type,
                                                     state.count)
                   IN  IF IsSome(required_buffer_size)
                       THEN [call EXCEPT !.pc = "ld_lock",
                                         !.n = required_buffer_size[1]]
                       ELSE [call EXCEPT !.pc = "ret",
                                         !.res = Err("ParseError")]
              ELSE [call EXCEPT
                      !.pc = "ret",
                      !.res = IF op = "get_value"
                              THEN Ok(get_value_match(state))
                              ELSE Ok(None)]]
    /\ UNCHANGED <<file, pos, lock, reader>>

\* Field::load: self.buf_reader_ref.lock().
LdLock(c) ==
    /\ cs[c].pc = "ld_lock"
    /\ MutexFree
    /\ lock' = c
    /\ cs' = [cs EXCEPT ![c].pc = "ld_seek"]
    /\ UNCHANGED <<file, pos, reader>>

\* A faulty load that seeks to the start of the source, not to the offset.
LdSeek_ToStart(c) ==
    /\ cs[c].pc = "ld_seek"
    /\ pos' = 0
    /\ cs' = [cs EXCEPT ![c].pc = "ld_read", ![c].io = Append(@, IoSeek(0))]
    /\ UNCHANGED <<file, lock, reader>>

\* Field::load: buf_reader.seek(Start(offset)).
LdSeek(c) ==
    /\ cs[c].pc = "ld_seek"
    /\ LET offset == cs[c].pre[1].state.offset
       IN  /\ pos' = offset
           /\ cs' = [cs EXCEPT ![c].pc = "ld_read",
                               ![c].io = Append(@, IoSeek(offset))]
    /\ UNCHANGED <<file, lock, reader>>

\* A faulty read step whose error load_all_field_values swallows: the loop
\* goes on to the next tag.
LdRead_SwallowsError(c) ==
    /\ cs[c].pc = "ld_read"
    /\ LET r == read_exact(pos, cs[c].n)
       IN  /\ pos' = r.pos
           /\ IF r.ok
              THEN /\ cs' = [cs EXCEPT ![c].pc = "ld_decode",
                                       ![c].buf = r.bytes,
                                       ![c].io = Append(@, IoRead(cs[c].n))]
                   /\ UNCHANGED lock
              ELSE /\ cs' = [cs EXCEPT
                           ![c].pc = IF cs[c].op = "load_all" THEN "la_next"
                                                              ELSE "ret",
                           ![c].res = IF cs[c].op = "load_all"
                                      THEN @ ELSE Err("IoError"),
                           ![c].io = Append(@, IoRead(cs[c].n))]
                   /\ lock' = 0
    /\ UNCHANGED <<file, reader>>

\* A faulty read step that keeps the guard when the read fails.
LdRead_KeepsLock(c) ==
    /\ cs[c].pc = "ld_read"
    /\ LET r == read_exact(pos, cs[c].n)
       IN  /\ pos' = r.pos
           /\ cs' = [cs EXCEPT
                 ![c].pc = IF r.ok THEN "ld_decode" ELSE "ret",
                 ![c].buf = r.bytes,
                 ![c].res = IF r.ok THEN @ ELSE Err("IoError"),
                 ![c].io = Append(@, IoRead(cs[c].n))]
    /\ UNCHANGED <<file, lock, reader>>

\* Field::load: buf_reader.read_exact(&mut value_buffer); an error returns
\* through `?`, which drops the guard and leaves the state as it was.
LdRead(c) ==
    /\ cs[c].pc = "ld_read"
    /\ LET r == read_exact(pos, cs[c].n)
       IN  /\ pos' = r.pos
           /\ IF r.ok
              THEN /\ cs' = [cs EXCEPT ![c].pc = "ld_decode",
                                       ![c].buf = r.bytes,
                                       ![c].io = Append(@, IoRead(cs[c].n))]
                   /\ UNCHANGED lock
              ELSE /\ cs' = [cs EXCEPT ![c].pc = "ret",
                                       ![c].res = Err("IoError"),
                                       ![c].io = Append(@, IoRead(cs[c].n))]
                   /\ lock' = 0
    /\ UNCHANGED <<file, reader>>

\* Field::load: value_from_buffer, the assignment of the Loaded state, and
\* the end of the match arm, where the guard is dropped; then, for
\* get_value, its match on the new state, and for load_all_field_values,
\* the next iteration of its loop.
LdDecode(c) ==
    /\ cs[c].pc = "ld_decode"
    /\ LET field == FieldAt(cs[c].sub, cs[c].tag)
           state == cs[c].pre[1].state
           value == value_from_buffer(state.field_type, state.count,
                                      cs[c].buf, field.endianness)
           new == Loaded(value.val, state.offset)
       IN  IF value.ok
           THEN /\ reader' = SetFieldState(cs[c].sub, cs[c].tag,
                                [field EXCEPT
                                    !.state = new,
                                    !.first = IF IsSome(@) THEN @
                                                           ELSE Some(new)])
                /\ cs' = [cs EXCEPT
                      ![c].pc = IF cs[c].op = "load_all" THEN "la_next"
                                                         ELSE "ret",
                      ![c].buf = <<>>,
                      ![c].res = IF cs[c].op = "get_value"
                                 THEN Ok(get_value_match(new))
                                 ELSE Ok(None)]
           ELSE /\ cs' = [cs EXCEPT ![c].pc = "ret", ![c].buf = <<>>,
                                    ![c].res = Err(value.err)]
                /\ UNCHANGED reader
    /\ lock' = 0
    /\ UNCHANGED <<file, pos>>

\* Field::unload.
Unload(c, i, tag) ==
    /\ reader.status = "ok"
    /\ cs[c].pc = "idle"
    /\ i \in 1 .. Len(reader.subfiles)
    /\ tag \in DOMAIN reader.subfiles[i].fields
    /\ FieldFree(c, i, tag)
    /\ LET field == FieldAt(i, tag)
       IN  /\ reader' = SetFieldState(i, tag,
                            [field EXCEPT !.state = unload(field.state)])
           /\ cs' = [cs EXCEPT ![c] =
                        [IdleCaller EXCEPT !.op = "unload", !.pc = "ret",
                                           !.sub = i, !.tag = tag,
                                           !.pre = Some(field)]]
    /\ UNCHANGED <<file, pos, lock>>

\* Field::get_value_if_local.
GetValueIfLocal(c, i, tag) ==
    /\ reader.status = "ok"
    /\ cs[c].pc = "idle"
    /\ i \in 1 .. Len(reader.subfiles)
    /\ tag \in DOMAIN reader.subfiles[i].fields
    /\ FieldFree(c, i, tag)
    /\ LET field == FieldAt(i, tag)
       IN  cs' = [cs EXCEPT ![c] =
                     [IdleCaller EXCEPT
                         !.op = "get_value_if_local", !.pc = "ret",
                         !.sub = i, !.tag = tag, !.pre = Some(field),
                         !.res = Ok(get_value_if_local(field.state))]]
    /\ UNCHANGED <<file, pos, lock, reader>>

\* A faulty collection of the keys that leaves the greatest tag out.
RECURSIVE keys_collect_SkipsLast(_)
keys_collect_SkipsLast(tags) ==
    IF Cardinality(tags) <= 1
    THEN <<>>
    ELSE LET least == CHOOSE t \in tags : \A u \in tags : t <= u
         IN  <<least>> \o keys_collect_SkipsLast(tags \ {least})

\* self.fields.keys().cloned().collect(): the tags in ascending order.
RECURSIVE keys_collect(_)
keys_collect(tags) ==
    IF tags = {}
    THEN <<>>
    ELSE LET least == CHOOSE t \in tags : \A u \in tags : t <= u
         IN  <<least>> \o keys_collect(tags \ {least})

\* Subfile::load_all_field_values up to its loop.
LoadAllBegin(c, i) ==
    /\ reader.status = "ok"
    /\ cs[c].pc = "idle"
    /\ i \in 1 .. Len(reader.subfiles)
    /\ SubfileFree(c, i)
    /\ cs' = [cs EXCEPT ![c] =
                 [IdleCaller EXCEPT
                     !.op = "load_all", !.pc = "la_next", !.sub = i,
                     !.tags = keys_collect(DOMAIN reader.subfiles[i].fields),
                     !.presub = Some(reader.subfiles[i])]]
    /\ UNCHANGED <<file, pos, lock, reader>>

\* One iteration of the loop of load_all_field_values, up to the lock of
\* the field's load: the match on the state and the buffer size.  After the
\* last tag the operation returns Ok.
LoadAllNext(c) ==
    /\ cs[c].pc = "la_next"
    /\ IF cs[c].tags = <<>>
       THEN cs' = [cs EXCEPT ![c].pc = "ret", ![c].res = Ok(None)]
       ELSE LET tag == Head(cs[c].tags)
                field == FieldAt(cs[c].sub, tag)
                state == field.state
                call == [cs[c] EXCEPT !.tag = tag, !.tags = Tail(@),
                                      !.pre = Some(field)]
            IN  cs' = [cs EXCEPT ![c] =
                   IF state.kind = "NotLoaded"
                   THEN LET required_buffer_size ==
                                compute_value_buffer_size(state.field_type,
                                                          state.count)
                        IN  IF IsSome(required_buffer_size)
                            THEN [call EXCEPT !.pc = "ld_lock",
                                              !.n = required_buffer_size[1]]
                            ELSE [call EXCEPT !.pc = "ret",
                                              !.res = Err("ParseError")]
                   ELSE call]
    /\ UNCHANGED <<file, pos, lock, reader>>

\* Subfile::unload_all_field_values.
UnloadAll(c, i) ==
    /\ reader.status = "ok"
    /\ cs[c].pc = "idle"
    /\ i \in 1 .. Len(reader.subfiles)
    /\ SubfileFree(c, i)
    /\ reader' = [reader EXCEPT !.subfiles[i].fields =
                     [tag \in DOMAIN @ |->
                         [@[tag] EXCEPT !.state = unload(@)]]]
    /\ cs' = [cs EXCEPT ![c] =
                 [IdleCaller EXCEPT !.op = "unload_all", !.pc = "ret",
                                    !.sub = i,
                                    !.presub = Some(reader.subfiles[i])]]
    /\ UNCHANGED <<file, pos, lock>>

\* The operation returns to its caller, which drops the result.
Return(c) ==
    /\ cs[c].pc = "ret"
    /\ cs' = [cs EXCEPT ![c] = IdleCaller]
    /\ UNCHANGED <<file, pos, lock, reader>>

\* ------------------------------------------------------- specifications

Tags == UNION {DOMAIN reader.subfiles[i].fields : i \in 1 .. Len(reader.subfiles)}

Next ==
    \/ TiffReaderNew
    \/ \E c \in Callers : ReadAllIfdsBegin(c)
    \/ \E c \in Callers : \E offset \in KnownOffsets : SubfileNewBegin(c, offset)
    \/ \E c \in Callers : SfLock(c)
    \/ \E c \in Callers : SfSeek(c)
    \/ \E c \in Callers : SfReadCount(c)
    \/ \E c \in Callers : SfReadRest(c)
    \/ \E c \in Callers : SfParse(c)
    \/ \E c \in Callers : \E i \in 1 .. Len(reader.subfiles) : \E tag \in Tags :
          \E op \in {"load", "get_value"} : LoadBegin(c, i, tag, op)
    \/ \E c \in Callers : LdLock(c)
    \/ \E c \in Callers : LdSeek(c)
    \/ \E c \in Callers : LdRead(c)
    \/ \E c \in Callers : LdDecode(c)
    \/ \E c \in Callers : \E i \in 1 .. Len(reader.subfiles) : \E tag \in Tags :
          Unload(c, i, tag)
    \/ \E c \in Callers : \E i \in 1 .. Len(reader.subfiles) : \E tag \in Tags :
          GetValueIfLocal(c, i, tag)
    \/ \E c \in Callers : \E i \in 1 .. Len(reader.subfiles) : LoadAllBegin(c, i)
    \/ \E c \in Callers : LoadAllNext(c)
    \/ \E c \in Callers : \E i \in 1 .. Len(reader.subfiles) : UnloadAll(c, i)
    \/ \E c \in Callers : Return(c)

\* One caller, every input file.
Init ==
    /\ file \in Files
    /\ pos = 0
    /\ lock = 0
    /\ reader = NoReader
    /\ cs = [c \in {1} |-> IdleCaller]

Spec == Init /\ [][Next]_vars

\* NumCallers callers that share the byte source.
InitConc ==
    /\ file \in ConcFiles
    /\ pos = 0
    /\ lock = 0
    /\ reader = NoReader
    /\ cs = [c \in 1 .. NumCallers |-> IdleCaller]

SpecConc == InitConc /\ [][Next]_vars

\* One caller on those files.
InitLoadAll ==
    /\ file \in LoadAllFiles
    /\ pos = 0
    /\ lock = 0
    /\ reader = NoReader
    /\ cs = [c \in {1} |-> IdleCaller]

SpecLoadAll == InitLoadAll /\ [][Next]_vars

\* NumCallers callers on the files with failing reads, under a scheduler
\* that keeps a thread that holds the guard running (weak fairness of the
\* steps between lock and unlock) and a mutex that does not starve a thread
\* that keeps finding it free (strong fairness of the lock steps).
InitFair ==
    /\ file \in FailingFiles
    /\ pos = 0
    /\ lock = 0
    /\ reader = NoReader
    /\ cs = [c \in 1 .. NumCallers |-> IdleCaller]

Fairness ==
    \A c \in 1 .. NumCallers :
        /\ WF_vars(SfSeek(c))
        /\ WF_vars(SfReadCount(c))
        /\ WF_vars(SfReadRest(c))
        /\ WF_vars(LdSeek(c))
        /\ WF_vars(LdRead(c))
        /\ WF_vars(LdDecode(c))
        /\ SF_vars(SfLock(c))
        /\ SF_vars(LdLock(c))

SpecFair == InitFair /\ [][Next]_vars /\ Fairness

\* ------------------------------------------- direct calls of types.rs

\* The bytes the buffers of the direct calls are made of.
SampleBytes == {0, 1, 128, 255}

\* Buffers of 0 to 4 bytes, and of 8 and 16 bytes.
TypesBuffers ==
    UNION {[1 .. n -> SampleBytes] : n \in 0 .. 4}
        \cup {Slice(DataBytes, 0, 8), Slice(DataBytes, 8, 8), DataBytes}

\* The counts of the calls of value_from_buffer.
TypesCounts == {0, 1, 2, 3, 70000}

\* The counts of the calls of compute_value_buffer_size: around the largest
\* count that fits for each element size, around usize::MAX, and far above.
SizeCounts ==
    {0, 1, 3,
     UsizeMax \div 8, UsizeMax \div 8 + 1, UsizeMax \div 4, UsizeMax \div 4 + 1,
     UsizeMax \div 2, UsizeMax \div 2 + 1, UsizeMax, UsizeMax + 1,
     2 * UsizeMax + 2, 70000, 268435455}

\* Every u32 of the buffer, in either byte order, is below 2^31.
U32Below2Pow31(buffer) ==
    \A k \in 1 .. (Len(buffer) \div 4) :
        buffer[4 * k - 3] < 128 /\ buffer[4 * k] < 128

\* A caller about to call a function of types.rs with these arguments.
TypesCall(op, field_type, count, buffer, endianness) ==
    [pc |-> "call", op |-> op, field_type |-> field_type, count |-> count,
     buffer |-> buffer, endianness |-> endianness, res |-> Ok(None)]

TypesCalls ==
    {TypesCall("value_from_buffer", t, n, b, e) :
        t \in FieldTypes \ {"Long", "Rational"}, n \in TypesCounts,
        b \in TypesBuffers, e \in Endiannesses}
    \cup {TypesCall("value_from_buffer", t, n, b, e) :
            t \in {"Long", "Rational"}, n \in TypesCounts,
            b \in {x \in TypesBuffers : U32Below2Pow31(x)}, e \in Endiannesses}
    \cup {TypesCall("compute_value_buffer_size", t, n, <<>>, "Little") :
            t \in FieldTypes, n \in SizeCounts}

\* The call of value_from_buffer returns (or panics).
ValueFromBuffer(c) ==
    /\ cs[c].pc = "call"
    /\ cs[c].op = "value_from_buffer"
    /\ cs' = [cs EXCEPT
          ![c].pc = "ret",
          ![c].res = value_from_buffer(cs[c].field_type, cs[c].count,
                                       cs[c].buffer, cs[c].endianness)]
    /\ UNCHANGED <<file, pos, lock, reader>>

\* The call of compute_value_buffer_size returns its Option<usize>.
ComputeValueBufferSize(c) ==
    /\ cs[c].pc = "call"
    /\ cs[c].op = "compute_value_buffer_size"
    /\ cs' = [cs EXCEPT
          ![c].pc = "ret",
          ![c].res = compute_value_buffer_size(cs[c].field_type, cs[c].count)]
    /\ UNCHANGED <<file, pos, lock, reader>>

NextTypes ==
    \/ \E c \in Callers : ValueFromBuffer(c)
    \/ \E c \in Callers : ComputeValueBufferSize(c)

\* One caller, one call, every combination of arguments.
InitTypes ==
    /\ file = <<>>
    /\ pos = 0
    /\ lock = 0
    /\ reader = NoReader
    /\ cs \in [{1} -> TypesCalls]

SpecTypes == InitTypes /\ [][NextTypes]_vars

\* ------------------------------------------------------------ properties

\* What the properties read off the file itself.
FileEndianness == IF file[1] = 73 THEN "Little" ELSE "Big"

ValidMagic == Len(file) >= 4 /\ Slice(file, 0, 4) \in {MagicLittle, MagicBig}

\* Bytes 4..8 of the file as a u32 in the byte order its magic names.
FileFirstOffset ==
    IF FileEndianness = "Little"
    THEN file[5] + 256 * file[6] + 65536 * file[7] + 16777216 * file[8]
    ELSE 16777216 * file[5] + 65536 * file[6] + 256 * file[7] + file[8]

\* count elements of field_type decoded from the bytes, element by element.
Decoded(field_type, count, bytes, endianness) ==
    [field_type |-> field_type,
     v |-> [i \in 1 .. count |->
               element_from_chunk(field_type,
                                  Slice(bytes, (i - 1) * size_of(field_type),
                                        size_of(field_type)),
                                  endianness)]]

KnownType(decl) == decl.field_type_raw \in 1 .. 12

DeclType(decl) == FieldType_from_u16(decl.field_type_raw)[1]

DeclSize(decl) == size_of(DeclType(decl)) * decl.count

\* Every field of the reader's subfiles, as <<subfile index, tag>>.
FieldIds ==
    {<<i, tag>> : i \in 1 .. Len(reader.subfiles), tag \in Tags} \cap
    {id \in (1 .. Len(reader.subfiles)) \X Tags :
        id[2] \in DOMAIN reader.subfiles[id[1]].fields}

InSubfileNew(c) ==
    cs[c].pc \in {"sf_lock", "sf_seek", "sf_count", "sf_rest", "sf_parse"}

\* The offsets of the IFDs that this call of read_all_ifds has pushed.
VisitedOffsets(c) ==
    {reader.subfiles[i].at : i \in (cs[c].base + 1) .. Len(reader.subfiles)}

\* C1: read_all_ifds never goes on to read an IFD at an offset it has
\* already visited in this call: a chain that points back to a visited
\* offset ends the traversal (with an error) instead of being followed.
C1_CycleEndsTraversal ==
    \A c \in Callers :
        (cs[c].op = "read_all_ifds" /\ InSubfileNew(c))
            => cs[c].ifd_offset \notin VisitedOffsets(c)

\* The caller holds the guard: it is between its lock and its unlock.
InCritical(c) ==
    cs[c].pc \in {"sf_seek", "sf_count", "sf_rest", "ld_seek", "ld_read",
                  "ld_decode"}

\* C2: a caller's seek and the read that follows it are one atomic unit
\* under the mutex: between them the caller holds the lock and the cursor
\* is where the caller put it, at most one caller is between its lock and
\* its unlock, and the bytes a caller has read are the bytes at its own
\* offset.
C2_SeekReadAtomic ==
    /\ \A c \in Callers : InCritical(c) => lock = c
    /\ \A c, d \in Callers : (c # d /\ InCritical(c)) => ~InCritical(d)
    /\ \A c \in Callers :
        /\ cs[c].pc = "ld_read" => pos = cs[c].pre[1].state.offset
        /\ cs[c].pc = "ld_decode" =>
              cs[c].buf = Slice(file, cs[c].pre[1].state.offset, cs[c].n)
        /\ cs[c].pc = "sf_count" => pos = cs[c].ifd_offset
        /\ cs[c].pc = "sf_rest" =>
              /\ pos = cs[c].ifd_offset + 2
              /\ cs[c].n = ReadU16(FileEndianness,
                                   Slice(file, cs[c].ifd_offset, 2))
        /\ cs[c].pc = "sf_parse" =>
              cs[c].buf = Slice(file, cs[c].ifd_offset + 2, 12 * cs[c].n + 4)

\* C2's case: a caller is between its seek and its read while another
\* caller waits for the lock to load a field at another offset.
C2_Witness ==
    \E c, d \in Callers :
        /\ c # d
        /\ cs[c].pc = "ld_read"
        /\ cs[d].pc = "ld_lock"
        /\ cs[c].pre[1].state.offset # cs[d].pre[1].state.offset

\* A load of a field that an earlier load had loaded and an unload has
\* unloaded since, at its return.
IsReload(c) ==
    /\ cs[c].pc = "ret"
    /\ cs[c].op = "load"
    /\ cs[c].pre[1].state.kind = "NotLoaded"
    /\ IsSome(cs[c].pre[1].first)

\* C3: load(); unload(); load() on an out-of-line field leaves it Loaded
\* with the value and the offset it had after the first load.
C3_ReloadIdentical ==
    \A c \in Callers :
        IsReload(c) =>
            /\ cs[c].res.ok
            /\ FieldAt(cs[c].sub, cs[c].tag).state = cs[c].pre[1].first[1]
            /\ FieldAt(cs[c].sub, cs[c].tag).state.kind = "Loaded"

\* C3's case: such a reload of a field with several multi-byte elements.
C3_Witness ==
    \E c \in Callers :
        /\ IsReload(c)
        /\ cs[c].pre[1].state.field_type = "Short"
        /\ cs[c].pre[1].state.count = 3

\* A known type whose count elements fit the 4 inline bytes.
IsInline(decl) == KnownType(decl) /\ DeclSize(decl) <= 4

\* A known type whose values do not fit (and whose size is computable).
IsOutOfLine(decl) ==
    /\ KnownType(decl)
    /\ IsSome(compute_value_buffer_size(DeclType(decl), decl.count))
    /\ DeclSize(decl) > 4

\* C4: a directory entry of a known type with element_size * count <= 4
\* gives a Local field that holds the count elements decoded from the first
\* bytes of the inline bytes, and load, get_value and get_value_if_local on
\* it issue no seek and no read (and so never take the lock).
C4_InlineIsLocalWithoutIo ==
    /\ \A id \in FieldIds :
          LET f == FieldAt(id[1], id[2])
          IN  IsInline(f.decl) =>
                 f.state = Local(Decoded(DeclType(f.decl), f.decl.count,
                                         f.decl.value_offset_bytes,
                                         FileEndianness))
    /\ \A c \in Callers :
          (cs[c].op \in {"load", "get_value", "get_value_if_local"}
              /\ IsInline(cs[c].pre[1].decl))
          => /\ cs[c].pc = "ret"
             /\ cs[c].io = <<>>
             /\ cs[c].res.ok
             /\ FieldAt(cs[c].sub, cs[c].tag) = cs[c].pre[1]

\* C4's case: get_value has returned on a Local field whose count is 0.
C4_Witness ==
    \E c \in Callers :
        /\ cs[c].pc = "ret"
        /\ cs[c].op = "get_value"
        /\ IsInline(cs[c].pre[1].decl)
        /\ cs[c].pre[1].decl.count = 0
        /\ cs[c].res = Ok(Some([field_type |-> "Ascii", v |-> <<>>]))

\* The seeks and reads of one Subfile::new at offset for n entries.
SubfileNewIo(offset, n) ==
    <<IoSeek(offset), IoRead(2), IoRead(12 * n + 4)>>

\* The inline bytes as a u32 in the file's byte order.
DeclOffset(decl) ==
    LET b == decl.value_offset_bytes
    IN  IF FileEndianness = "Little"
        THEN b[1] + 256 * b[2] + 65536 * b[3] + 16777216 * b[4]
        ELSE 16777216 * b[1] + 65536 * b[2] + 256 * b[3] + b[4]

\* C5: a directory entry of a known type with element_size * count > 4
\* gives NotLoaded with the declared type and count and the inline bytes as
\* a u32 offset in the file's byte order, and Subfile::new reads nothing but
\* the IFD itself.  (A field of the reader's subfiles that has never been
\* loaded, and every field of a subfile that Subfile::new has just returned,
\* is as it was constructed.)
C5_OutOfLineIsNotLoaded ==
    /\ \A id \in FieldIds :
          LET f == FieldAt(id[1], id[2])
          IN  (IsOutOfLine(f.decl) /\ ~IsSome(f.first)) =>
                 f.state = NotLoaded(DeclType(f.decl), f.decl.count,
                                     DeclOffset(f.decl))
    /\ \A c \in Callers :
          (cs[c].pc = "ret" /\ cs[c].op = "Subfile_new" /\ cs[c].res.ok) =>
             /\ cs[c].io = SubfileNewIo(cs[c].ifd_offset, cs[c].n)
             /\ \A tag \in DOMAIN cs[c].res.val.fields :
                   LET f == cs[c].res.val.fields[tag]
                   IN  IsOutOfLine(f.decl) =>
                          f.state = NotLoaded(DeclType(f.decl), f.decl.count,
                                              DeclOffset(f.decl))

\* C5's case: Subfile::new has returned a subfile of a big-endian file with
\* a NotLoaded SRational field.
C5_Witness ==
    \E c \in Callers :
        /\ cs[c].pc = "ret"
        /\ cs[c].op = "Subfile_new"
        /\ cs[c].res.ok
        /\ FileEndianness = "Big"
        /\ \E tag \in DOMAIN cs[c].res.val.fields :
              /\ IsOutOfLine(cs[c].res.val.fields[tag].decl)
              /\ cs[c].res.val.fields[tag].state.kind = "NotLoaded"
              /\ cs[c].res.val.fields[tag].state.field_type = "SRational"

\* C6: a directory entry whose type code is outside 1..12 gives Unknown
\* with the raw type code, the count and the 4 inline bytes, and stays so:
\* load, unload, get_value and get_value_if_local on it leave the field as
\* it was, issue no seek and no read, and return no value and no error;
\* field_type() is None.
C6_UnknownIsTerminal ==
    /\ \A id \in FieldIds :
          LET f == FieldAt(id[1], id[2])
          IN  ~KnownType(f.decl) =>
                 /\ f.state = Unknown(f.decl.field_type_raw, f.decl.count,
                                      f.decl.value_offset_bytes)
                 /\ Field_field_type(f.state) = None
    /\ \A c \in Callers :
          (cs[c].op \in FieldOps /\ ~KnownType(cs[c].pre[1].decl)) =>
             /\ cs[c].pc = "ret"
             /\ cs[c].io = <<>>
             /\ cs[c].res = Ok(None)
             /\ FieldAt(cs[c].sub, cs[c].tag) = cs[c].pre[1]

\* C6's case: get_value has returned on the field of type code 9999.
C6_Witness ==
    \E c \in Callers :
        /\ cs[c].pc = "ret"
        /\ cs[c].op = "get_value"
        /\ cs[c].pre[1].decl.field_type_raw = 9999
        /\ cs[c].pre[1].state.kind = "Unknown"

\* C7: TiffReader::new fails, and constructs no reader, on an input shorter
\* than 8 bytes, on one whose first 4 bytes are neither magic, and on one
\* whose first-IFD offset is below 8.
C7_BadHeaderFails ==
    (reader.status # "uninit"
        /\ (Len(file) < 8 \/ ~ValidMagic \/ FileFirstOffset < 8))
    => (reader.status = "err" /\ reader.subfiles = <<>>)

\* C7's case: new has failed on a valid magic followed by the offset 7.
C7_Witness ==
    /\ reader.status = "err"
    /\ Len(file) >= 8
    /\ ValidMagic
    /\ FileFirstOffset = 7

\* C8: on an input of at least 8 bytes with a valid magic and a first-IFD
\* offset >= 8, TiffReader::new succeeds with the byte order the magic
\* names and the offset that bytes 4..8 hold in that order, so that encoding
\* them again gives the 8 input bytes, and with an empty subfile list.
C8_HeaderRoundTrip ==
    [][(reader.status = "uninit" /\ reader'.status # "uninit"
            /\ Len(file) >= 8 /\ ValidMagic /\ FileFirstOffset >= 8)
       => /\ reader'.status = "ok"
          /\ reader'.endianness = FileEndianness
          /\ reader'.offset_to_first_ifd = FileFirstOffset
          /\ HeaderBytes(reader'.endianness, reader'.offset_to_first_ifd)
                = Slice(file, 0, 8)
          /\ reader'.subfiles = <<>>]_vars

\* C8's case: the reader of the big-endian header with offset 1234567890.
C8_Witness ==
    /\ reader.status = "ok"
    /\ reader.endianness = "Big"
    /\ reader.offset_to_first_ifd = 1234567890
    /\ reader.subfiles = <<>>

\* The u16 and the u32 at offset o of the file, in the file's byte order.
FileU16(o) ==
    IF FileEndianness = "Little" THEN file[o + 1] + 256 * file[o + 2]
                                 ELSE 256 * file[o + 1] + file[o + 2]

FileU32(o) ==
    IF FileEndianness = "Little"
    THEN file[o + 1] + 256 * file[o + 2] + 65536 * file[o + 3]
            + 16777216 * file[o + 4]
    ELSE 16777216 * file[o + 1] + 65536 * file[o + 2] + 256 * file[o + 3]
            + file[o + 4]

\* The IFD at offset o is well formed: it lies within the file and the
\* buffer size of each of its entries of a known type is representable.
WellFormedIfd(o) ==
    /\ o + 2 <= Len(file)
    /\ o + 2 + 12 * FileU16(o) + 4 <= Len(file)
    /\ \A k \in 0 .. FileU16(o) - 1 :
          LET type == FileU16(o + 2 + 12 * k + 2)
              count == FileU32(o + 2 + 12 * k + 4)
          IN  type \in 1 .. 12 =>
                 count <= UsizeMax \div size_of(FieldType_from_u16(type)[1])

IfdNext(o) == FileU32(o + 2 + 12 * FileU16(o))

\* The offsets of the file's IFD chain from o on, in chain order; ends with
\* -1 when an IFD is not well formed or the chain has more than fuel IFDs.
RECURSIVE ChainFrom(_, _)
ChainFrom(o, fuel) ==
    IF fuel = 0 \/ ~WellFormedIfd(o)
    THEN <<-1>>
    ELSE IF IfdNext(o) = 0 THEN <<o>>
                           ELSE <<o>> \o ChainFrom(IfdNext(o), fuel - 1)

FileChain == ChainFrom(FileFirstOffset, MaxSubfiles)

WellFormedChain == \A i \in 1 .. Len(FileChain) : FileChain[i] # -1

\* read_all_ifds, called on a reader with no subfiles, has returned.
FirstReadAllReturned(c) ==
    cs[c].pc = "ret" /\ cs[c].op = "read_all_ifds" /\ cs[c].base = 0

\* C9: on a file whose chain has n well-formed IFDs and ends with next-IFD
\* offset 0, one read_all_ifds on a fresh reader returns Ok with exactly n
\* subfiles, the i-th read at the i-th offset of the chain, the last with
\* offset_to_next_ifd None and each earlier one with Some(the next offset).
C9_ChainOrder ==
    \A c \in Callers :
        (FirstReadAllReturned(c) /\ WellFormedChain) =>
            /\ cs[c].res.ok
            /\ Len(reader.subfiles) = Len(FileChain)
            /\ \A i \in 1 .. Len(FileChain) :
                  /\ reader.subfiles[i].at = FileChain[i]
                  /\ reader.subfiles[i].offset_to_next_ifd =
                        IF i = Len(FileChain) THEN None
                                              ELSE Some(FileChain[i + 1])
                  /\ i < Len(FileChain) => FileChain[i + 1] # 0

\* C9's case: the call has returned on a file with a chain of two IFDs.
C9_Witness ==
    \E c \in Callers :
        /\ FirstReadAllReturned(c)
        /\ WellFormedChain
        /\ Len(FileChain) = 2
        /\ Len(reader.subfiles) = 2

\* C10: load on a Local or Loaded field changes nothing and issues no seek
\* and no read; on NotLoaded{field_type, count, offset} it succeeds when the
\* bytes are in the file, and when it succeeds it has issued one seek to
\* offset and one read of element_size * count bytes and has left the field
\* Loaded with the same offset and the value decoded from those bytes.
C10_LoadContract ==
    \A c \in Callers :
        (cs[c].pc = "ret" /\ cs[c].op = "load") =>
            LET pre == cs[c].pre[1]
                f == FieldAt(cs[c].sub, cs[c].tag)
            IN  /\ pre.state.kind \in {"Local", "Loaded"} =>
                      (f = pre /\ cs[c].io = <<>> /\ cs[c].res.ok)
                /\ pre.state.kind = "NotLoaded" =>
                      LET field_type == pre.state.field_type
                          count == pre.state.count
                          offset == pre.state.offset
                          size == size_of(field_type) * count
                      IN  /\ offset + size <= Len(file) => cs[c].res.ok
                          /\ cs[c].res.ok =>
                               /\ cs[c].io = <<IoSeek(offset), IoRead(size)>>
                               /\ f.state =
                                    Loaded(Decoded(field_type, count,
                                                   Slice(file, offset, size),
                                                   FileEndianness),
                                           offset)

\* C10's case: load has returned Ok on a NotLoaded Rational field.
C10_Witness ==
    \E c \in Callers :
        /\ cs[c].pc = "ret"
        /\ cs[c].op = "load"
        /\ cs[c].res.ok
        /\ cs[c].pre[1].state.kind = "NotLoaded"
        /\ cs[c].pre[1].state.field_type = "Rational"
        /\ FieldAt(cs[c].sub, cs[c].tag).state.kind = "Loaded"

\* C11: a step in which a caller calls unload takes a Loaded{value, offset}
\* field to NotLoaded with the type, count and offset its directory entry
\* declared (the NotLoaded state it was constructed in), leaves a field in
\* any other state as it is, changes no other field, and leaves the byte
\* source, its cursor and its lock untouched.
C11_UnloadFrame ==
    [][\A c \in Callers :
          (cs[c].pc = "idle" /\ cs'[c].op = "unload") =>
             LET i == cs'[c].sub
                 tag == cs'[c].tag
                 f == reader.subfiles[i].fields[tag]
                 g == reader'.subfiles[i].fields[tag]
             IN  /\ f.state.kind = "Loaded" =>
                       g.state = NotLoaded(DeclType(f.decl), f.decl.count,
                                           DeclOffset(f.decl))
                 /\ f.state.kind # "Loaded" => g.state = f.state
                 /\ reader' = [reader EXCEPT
                                  !.subfiles[i].fields[tag].state = g.state]
                 /\ cs'[c].io = <<>>
                 /\ pos' = pos /\ lock' = lock /\ file' = file]_vars

\* C11's case: unload has returned on a field that was Loaded with three
\* Shorts and is NotLoaded again.
C11_Witness ==
    \E c \in Callers :
        /\ cs[c].pc = "ret"
        /\ cs[c].op = "unload"
        /\ cs[c].pre[1].state.kind = "Loaded"
        /\ Len(cs[c].pre[1].state.value.v) = 3
        /\ FieldAt(cs[c].sub, cs[c].tag).state.kind = "NotLoaded"
        /\ FieldAt(cs[c].sub, cs[c].tag).state.offset > 0

\* The caller's direct call of op has returned.
TypesReturned(c, op) == cs[c].pc = "ret" /\ cs[c].op = op

\* C12: value_from_buffer, called with a buffer whose length is not the
\* buffer size of (field_type, count), returns an Err of the error type (it
\* does not panic and returns no value).
C12_MismatchIsErr ==
    \A c \in Callers :
        (/\ TypesReturned(c, "value_from_buffer")
         /\ size_of(cs[c].field_type) * cs[c].count <= UsizeMax
         /\ Len(cs[c].buffer) # size_of(cs[c].field_type) * cs[c].count)
        => (~cs[c].res.ok /\ cs[c].res.err = "ParseError")

\* C13: compute_value_buffer_size(field_type, count) is
\* Some(element_size * count) exactly when count and element_size * count
\* are below 2^UsizeBits, and None otherwise (never the product wrapped).
C13_BufferSizeChecked ==
    \A c \in Callers :
        TypesReturned(c, "compute_value_buffer_size") =>
            LET product == size_of(cs[c].field_type) * cs[c].count
            IN  cs[c].res =
                    IF cs[c].count < Pow2(UsizeBits) /\ product < Pow2(UsizeBits)
                    THEN Some(product)
                    ELSE None

\* C13's case: the call has returned None for a count that fits the usize
\* and whose product with the element size is exactly 2^UsizeBits.
C13_Witness ==
    \E c \in Callers :
        /\ TypesReturned(c, "compute_value_buffer_size")
        /\ cs[c].count <= UsizeMax
        /\ size_of(cs[c].field_type) * cs[c].count = Pow2(UsizeBits)
        /\ cs[c].res = None

\* The IFD at offset o lies within the file.
IfdInFile(o) ==
    /\ o + 2 <= Len(file)
    /\ o + 2 + 12 * FileU16(o) + 4 <= Len(file)

\* The IFD at offset o has a directory entry of a known type whose count
\* times its element size is not representable in the usize.
HasOverflowEntry(o) ==
    /\ IfdInFile(o)
    /\ \E k \in 0 .. FileU16(o) - 1 :
          LET type == FileU16(o + 2 + 12 * k + 2)
              count == FileU32(o + 2 + 12 * k + 4)
          IN  /\ type \in 1 .. 12
              /\ count > UsizeMax \div size_of(FieldType_from_u16(type)[1])

\* C14: when an IFD has an entry of a known type whose buffer size is not
\* representable, Subfile::new for it returns a parse error and read_all_ifds
\* returns that error: no subfile read at that offset exists, in the
\* reader's list or as a result, and no field of a known type is Unknown.
C14_OverflowFailsSubfile ==
    /\ \A i \in 1 .. Len(reader.subfiles) :
          ~HasOverflowEntry(reader.subfiles[i].at)
    /\ \A id \in FieldIds :
          KnownType(FieldAt(id[1], id[2]).decl) =>
             FieldAt(id[1], id[2]).state.kind # "Unknown"
    /\ \A c \in Callers :
          (/\ cs[c].pc = "ret"
           /\ cs[c].op \in {"Subfile_new", "read_all_ifds"}
           /\ HasOverflowEntry(cs[c].ifd_offset))
          => cs[c].res = Err("ParseError")

\* C14's case: read_all_ifds has returned the parse error of an IFD whose
\* second entry overflows, and the reader has no subfile.
C14_Witness ==
    \E c \in Callers :
        /\ cs[c].pc = "ret"
        /\ cs[c].op = "read_all_ifds"
        /\ HasOverflowEntry(cs[c].ifd_offset)
        /\ FileU16(cs[c].ifd_offset) = 2
        /\ cs[c].res = Err("ParseError")
        /\ reader.subfiles = <<>>

\* C15: in Field::load the lock is held for the seek and the read only: a
\* caller that is decoding the bytes it has read (value_from_buffer, then
\* the assignment of the Loaded state) does not hold the lock.
C15_LockReleasedBeforeDecode ==
    \A c \in Callers : cs[c].pc = "ld_decode" => lock # c

\* C16: read_all_ifds never goes on to read an IFD at a next-IFD offset
\* that lies inside the 8-byte header (1..7): such an offset ends the
\* traversal with an error.
C16_LowOffsetRejected ==
    \A c \in Callers :
        (cs[c].op = "read_all_ifds" /\ InSubfileNew(c)
            /\ Len(reader.subfiles) > cs[c].base)
        => cs[c].ifd_offset >= 8

\* C17: a step in which a caller calls get_value_if_local returns
\* Some(value) when the field is Local and None when it is NotLoaded, Loaded
\* or Unknown, and changes neither the field (or any other part of the
\* reader) nor the byte source, its cursor or its lock.
C17_ValueIfLocal ==
    [][\A c \in Callers :
          (cs[c].pc = "idle" /\ cs'[c].op = "get_value_if_local") =>
             LET state == reader.subfiles[cs'[c].sub].fields[cs'[c].tag].state
             IN  /\ cs'[c].res =
                       IF state.kind = "Local" THEN Ok(Some(state.value))
                                               ELSE Ok(None)
                 /\ cs'[c].io = <<>>
                 /\ reader' = reader
                 /\ pos' = pos /\ lock' = lock /\ file' = file]_vars

\* C17's case: get_value_if_local has returned None on a field that is
\* Loaded, and the field still holds its value.
C17_Witness ==
    \E c \in Callers :
        /\ cs[c].pc = "ret"
        /\ cs[c].op = "get_value_if_local"
        /\ cs[c].pre[1].state.kind = "Loaded"
        /\ cs[c].res = Ok(None)
        /\ FieldAt(cs[c].sub, cs[c].tag).state = cs[c].pre[1].state

\* The other byte order.
OtherEndianness(endianness) == IF endianness = "Little" THEN "Big" ELSE "Little"

\* C18: a successful value_from_buffer decodes the i-th Short from the
\* chunk [b0, b1] as b0 + 256*b1 under Little and as 256*b0 + b1 under Big,
\* and decodes Byte, Ascii and Undefined elements as the bytes themselves,
\* the same under both byte orders.
C18_ShortFollowsEndianness ==
    \A c \in Callers :
        (TypesReturned(c, "value_from_buffer") /\ cs[c].res.ok) =>
            LET b == cs[c].buffer
                v == cs[c].res.val.v
            IN  /\ cs[c].field_type = "Short" =>
                      /\ Len(v) = cs[c].count
                      /\ \A i \in 1 .. Len(v) :
                            v[i] = IF cs[c].endianness = "Little"
                                   THEN b[2 * i - 1] + 256 * b[2 * i]
                                   ELSE 256 * b[2 * i - 1] + b[2 * i]
                /\ cs[c].field_type \in {"Byte", "Ascii", "Undefined"} =>
                      /\ v = b
                      /\ value_from_buffer(cs[c].field_type, cs[c].count, b,
                                           OtherEndianness(cs[c].endianness))
                            = cs[c].res

\* C18's case: the Short of the chunk [1, 0] decoded under Big is 256 (and
\* under Little it is 1).
C18_Witness ==
    \E c \in Callers :
        /\ TypesReturned(c, "value_from_buffer")
        /\ cs[c].field_type = "Short"
        /\ cs[c].buffer = <<1, 0>>
        /\ cs[c].endianness = "Big"
        /\ cs[c].res = Ok([field_type |-> "Short", v |-> <<256>>])
        /\ value_from_buffer("Short", 1, <<1, 0>>, "Little")
              = Ok([field_type |-> "Short", v |-> <<1>>])

\* The field holds what its directory entry declares: count() is the
\* declared count, and a decoded value has exactly that many elements, the
\* i-th decoded from the i-th chunk of the source bytes (the inline bytes
\* for Local, the bytes at the declared offset for Loaded).
HoldsDeclared(f) ==
    /\ Field_count(f.state) = f.decl.count
    /\ f.state.kind = "Local" =>
          /\ Len(f.state.value.v) = f.decl.count
          /\ f.state.value.v =
                Decoded(DeclType(f.decl), f.decl.count,
                        f.decl.value_offset_bytes, FileEndianness).v
    /\ f.state.kind = "Loaded" =>
          /\ Len(f.state.value.v) = f.decl.count
          /\ f.state.value.v =
                Decoded(DeclType(f.decl), f.decl.count,
                        Slice(file, DeclOffset(f.decl), DeclSize(f.decl)),
                        FileEndianness).v

\* C19: every field, of the reader's subfiles and of a subfile that
\* Subfile::new has returned, holds as many elements as its directory entry
\* declares, in the order of the source bytes, and count() is the declared
\* count in all four states.
C19_CountMatchesDeclared ==
    /\ \A id \in FieldIds : HoldsDeclared(FieldAt(id[1], id[2]))
    /\ \A c \in Callers :
          (cs[c].pc = "ret" /\ cs[c].op = "Subfile_new" /\ cs[c].res.ok) =>
             \A tag \in DOMAIN cs[c].res.val.fields :
                HoldsDeclared(cs[c].res.val.fields[tag])

\* C19's case: a field loaded from the file holds the three Shorts its
\* entry declares, while the same subfile has a Local field of two.
C19_Witness ==
    \E id \in FieldIds :
        /\ FieldAt(id[1], id[2]).state.kind = "Loaded"
        /\ FieldAt(id[1], id[2]).decl.count = 3
        /\ Len(FieldAt(id[1], id[2]).state.value.v) = 3
        /\ \E other \in FieldIds :
              /\ other[1] = id[1]
              /\ FieldAt(other[1], other[2]).state.kind = "Local"
              /\ Field_count(FieldAt(other[1], other[2]).state) = 2

\* The k-th (from 0) directory entry of the IFD at offset o, read off the
\* file in the file's byte order.
FileEntry(o, k) ==
    [tag |-> FileU16(o + 2 + 12 * k),
     field_type_raw |-> FileU16(o + 2 + 12 * k + 2),
     count |-> FileU32(o + 2 + 12 * k + 4),
     value_offset_bytes |-> Slice(file, o + 2 + 12 * k + 8, 4)]

\* The tags of the IFD at offset o, and the last entry that carries a tag.
IfdTags(o) == {FileEntry(o, k).tag : k \in 0 .. FileU16(o) - 1}

LastWithTag(o, tag) ==
    CHOOSE k \in 0 .. FileU16(o) - 1 :
        /\ FileEntry(o, k).tag = tag
        /\ \A j \in (k + 1) .. FileU16(o) - 1 : FileEntry(o, j).tag # tag

HasDuplicateTag(o) ==
    \E j, k \in 0 .. FileU16(o) - 1 :
        j # k /\ FileEntry(o, j).tag = FileEntry(o, k).tag

\* The subfile has one field per distinct tag of its IFD, each built from
\* the last entry with that tag.
LastEntryWins(sf) ==
    /\ DOMAIN sf.fields = IfdTags(sf.at)
    /\ Cardinality(DOMAIN sf.fields) = Cardinality(IfdTags(sf.at))
    /\ \A tag \in DOMAIN sf.fields :
          sf.fields[tag].decl = FileEntry(sf.at, LastWithTag(sf.at, tag))

\* C20: Subfile::new on an IFD that lies in the file and has no overflowing
\* entry succeeds, duplicated tags or not; the subfile has exactly one field
\* per distinct tag, and each field is the one built from the last entry
\* with its tag in file order.
C20_LastDuplicateWins ==
    /\ \A i \in 1 .. Len(reader.subfiles) : LastEntryWins(reader.subfiles[i])
    /\ \A c \in Callers :
          (cs[c].pc = "ret" /\ cs[c].op = "Subfile_new") =>
             /\ (IfdInFile(cs[c].ifd_offset)
                    /\ ~HasOverflowEntry(cs[c].ifd_offset)) => cs[c].res.ok
             /\ cs[c].res.ok =>
                   /\ LastEntryWins(cs[c].res.val)
                   /\ \A tag \in DOMAIN cs[c].res.val.fields :
                         LET e == FileEntry(cs[c].ifd_offset,
                                            LastWithTag(cs[c].ifd_offset, tag))
                             f == cs[c].res.val.fields[tag]
                         IN  /\ IsInline(e) =>
                                   f.state = Local(Decoded(
                                       DeclType(e), e.count,
                                       e.value_offset_bytes, FileEndianness))
                             /\ IsOutOfLine(e) => f.state.kind = "NotLoaded"
                             /\ ~KnownType(e) => f.state.kind = "Unknown"

\* C20's case: Subfile::new has returned the subfile of an IFD whose two
\* entries share the tag 256 (a Short, then three Bytes): it has one field,
\* the three Bytes.
C20_Witness ==
    \E c \in Callers :
        /\ cs[c].pc = "ret"
        /\ cs[c].op = "Subfile_new"
        /\ cs[c].res.ok
        /\ FileU16(cs[c].ifd_offset) = 2
        /\ HasDuplicateTag(cs[c].ifd_offset)
        /\ DOMAIN cs[c].res.val.fields = {256}
        /\ cs[c].res.val.fields[256].state =
              Local([field_type |-> "Byte", v |-> <<202, 254, 190>>])

\* C21: the reader's subfile list is append-only, and it has one entry per
\* IFD of the chain: in every step the entries of the old list stay in
\* their places in the new one (the same IFD, the same tags), and (already
\* on a file whose chain is well formed and has no cycle) no offset is the
\* place of two entries of the new list.
C21_AppendOnlyOnePerIfd ==
    [][/\ Len(reader'.subfiles) >= Len(reader.subfiles)
       /\ \A i \in 1 .. Len(reader.subfiles) :
             /\ reader'.subfiles[i].at = reader.subfiles[i].at
             /\ reader'.subfiles[i].offset_to_next_ifd
                   = reader.subfiles[i].offset_to_next_ifd
             /\ DOMAIN reader'.subfiles[i].fields
                   = DOMAIN reader.subfiles[i].fields
       /\ (reader'.status = "ok" /\ WellFormedChain) =>
             \A i, j \in 1 .. Len(reader'.subfiles) :
                i # j => reader'.subfiles[i].at # reader'.subfiles[j].at]_vars

\* load_all_field_values or unload_all_field_values has returned.
SubfileOpReturned(c, op) == cs[c].pc = "ret" /\ cs[c].op = op

\* C22: when load_all_field_values has returned Ok no field of the subfile
\* is NotLoaded; when unload_all_field_values has returned no field is
\* Loaded; and after either (after a failed load_all too) the subfile has
\* the tags and the offset_to_next_ifd it had before, and every field that
\* was Local or Unknown is as it was.
C22_LoadAllUnloadAll ==
    \A c \in Callers :
        LET sf == reader.subfiles[cs[c].sub]
            before == cs[c].presub[1]
        IN  /\ (SubfileOpReturned(c, "load_all") /\ cs[c].res.ok) =>
                  \A tag \in DOMAIN sf.fields :
                     sf.fields[tag].state.kind # "NotLoaded"
            /\ SubfileOpReturned(c, "unload_all") =>
                  \A tag \in DOMAIN sf.fields :
                     sf.fields[tag].state.kind # "Loaded"
            /\ (SubfileOpReturned(c, "load_all")
                    \/ SubfileOpReturned(c, "unload_all")) =>
                  /\ DOMAIN sf.fields = DOMAIN before.fields
                  /\ sf.offset_to_next_ifd = before.offset_to_next_ifd
                  /\ \A tag \in DOMAIN before.fields :
                        before.fields[tag].state.kind \in {"Local", "Unknown"}
                            => sf.fields[tag] = before.fields[tag]

\* C22's case: load_all_field_values has returned Ok on a subfile that had
\* a Local and a NotLoaded field, which is Loaded now.
C22_Witness ==
    \E c \in Callers :
        /\ SubfileOpReturned(c, "load_all")
        /\ cs[c].res.ok
        /\ \E t, u \in DOMAIN cs[c].presub[1].fields :
              /\ cs[c].presub[1].fields[t].state.kind = "Local"
              /\ cs[c].presub[1].fields[u].state.kind = "NotLoaded"
              /\ reader.subfiles[cs[c].sub].fields[u].state.kind = "Loaded"

\* The bytes of a NotLoaded state's value lie past the end of the file.
PastEof(state) ==
    state.offset + size_of(state.field_type) * state.count > Len(file)

\* The tags of the subfile whose fields are NotLoaded with bytes past the
\* end of the file.
UnreadableTags(sf) ==
    {t \in DOMAIN sf.fields :
        sf.fields[t].state.kind = "NotLoaded" /\ PastEof(sf.fields[t].state)}

\* C23: load on a NotLoaded field whose bytes lie past the end of the file
\* returns Err, and a load that has returned Err has left the field in the
\* NotLoaded state it had.  load_all_field_values on a subfile with such a
\* field returns Err at the least such tag: every NotLoaded field with a
\* smaller tag is Loaded, and the field it failed on and every field with a
\* larger tag are as they were.
C23_FailedLoadKeepsState ==
    \A c \in Callers :
        /\ (cs[c].pc = "ret" /\ cs[c].op = "load"
                /\ cs[c].pre[1].state.kind = "NotLoaded") =>
              /\ PastEof(cs[c].pre[1].state) => ~cs[c].res.ok
              /\ ~cs[c].res.ok =>
                    FieldAt(cs[c].sub, cs[c].tag) = cs[c].pre[1]
        /\ SubfileOpReturned(c, "load_all") =>
              LET sf == reader.subfiles[cs[c].sub]
                  before == cs[c].presub[1]
                  bad == UnreadableTags(before)
              IN  /\ bad # {} => ~cs[c].res.ok
                  /\ ~cs[c].res.ok =>
                        /\ cs[c].tag \in bad
                        /\ \A t \in bad : cs[c].tag <= t
                        /\ \A t \in DOMAIN before.fields :
                              /\ (t < cs[c].tag
                                     /\ before.fields[t].state.kind = "NotLoaded")
                                  => sf.fields[t].state.kind = "Loaded"
                              /\ t >= cs[c].tag =>
                                    sf.fields[t] = before.fields[t]

\* C23's case: load_all_field_values has returned the I/O error of the
\* field with tag 270; the field with tag 258 is Loaded and those with tags
\* 270 and 282 are NotLoaded as before.
C23_Witness ==
    \E c \in Callers :
        /\ SubfileOpReturned(c, "load_all")
        /\ cs[c].res = Err("IoError")
        /\ cs[c].tag = 270
        /\ cs[c].presub[1].fields[258].state.kind = "NotLoaded"
        /\ reader.subfiles[cs[c].sub].fields[258].state.kind = "Loaded"
        /\ reader.subfiles[cs[c].sub].fields[270].state.kind = "NotLoaded"
        /\ cs[c].presub[1].fields[282].state.kind = "NotLoaded"
        /\ reader.subfiles[cs[c].sub].fields[282].state.kind = "NotLoaded"

\* The offset a state stores (NotLoaded and Loaded do).
StoredOffset(state) ==
    IF state.kind \in {"NotLoaded", "Loaded"} THEN Some(state.offset) ELSE None

\* The step is the end of a load of the field (i, tag): by load, by
\* get_value, or by load_all_field_values on its subfile.
LoadStepOn(i, tag) ==
    \E c \in Callers :
        /\ cs[c].pc = "ld_decode"
        /\ cs'[c].pc # "ld_decode"
        /\ cs[c].op \in {"load", "get_value", "load_all"}
        /\ cs[c].sub = i
        /\ cs[c].tag = tag

\* The step is an unload of the field (i, tag): by unload, or by
\* unload_all_field_values on its subfile.
UnloadStepOn(i, tag) ==
    \E c \in Callers :
        /\ cs[c].pc = "idle"
        /\ cs'[c].sub = i
        /\ \/ cs'[c].op = "unload" /\ cs'[c].tag = tag
           \/ cs'[c].op = "unload_all"

\* C24: no step changes a field's count(), field_type() or stored offset;
\* a step that changes a field's state takes it from NotLoaded to Loaded and
\* is the end of a load of that very field, or takes it from Loaded to
\* NotLoaded and is an unload of that very field.
C24_FieldInvariants ==
    [][\A i \in 1 .. Len(reader.subfiles) :
          \A tag \in DOMAIN reader.subfiles[i].fields :
             LET f == reader.subfiles[i].fields[tag].state
                 g == reader'.subfiles[i].fields[tag].state
             IN  /\ Field_count(g) = Field_count(f)
                 /\ Field_field_type(g) = Field_field_type(f)
                 /\ StoredOffset(g) = StoredOffset(f)
                 /\ g # f =>
                       \/ /\ f.kind = "NotLoaded"
                          /\ g.kind = "Loaded"
                          /\ LoadStepOn(i, tag)
                       \/ /\ f.kind = "Loaded"
                          /\ g.kind = "NotLoaded"
                          /\ UnloadStepOn(i, tag)]_vars

\* C24's case: a load has returned on a field that is Loaded now, while the
\* field with the same tag in another subfile of the list is NotLoaded.
C24_Witness ==
    \E c \in Callers :
        /\ cs[c].pc = "ret"
        /\ cs[c].op = "load"
        /\ cs[c].pre[1].state.kind = "NotLoaded"
        /\ FieldAt(cs[c].sub, cs[c].tag).state.kind = "Loaded"
        /\ \E j \in 1 .. Len(reader.subfiles) :
              /\ j # cs[c].sub
              /\ cs[c].tag \in DOMAIN reader.subfiles[j].fields
              /\ reader.subfiles[j].fields[cs[c].tag].state.kind = "NotLoaded"

\* The caller is blocked in, or about to call, lock().
WaitsForLock(c) == cs[c].pc \in {"sf_lock", "ld_lock"}

====
